---- MODULE Spec2Model ----
(***************************************************************************)
(* Sentinel stock scanner: the in-memory store (MemStorage), the gapper    *)
(* pipeline (fetchTopGappers), the report queries and the broadcast        *)
(* scheduler of server/routes.ts.                                          *)
(*                                                                         *)
(* Number encoding.  JavaScript numbers and decimal strings are scaled     *)
(* integers:                                                               *)
(*   todaysChangePerc       thousandths of a percent (3010 = 3.01 %)       *)
(*   gapPercentage (stored) hundredths of a percent, as toFixed(2) leaves  *)
(*   relativeVolume(stored) hundredths of a percent, as toFixed(2) leaves  *)
(*   relativeVolumeMin      whole percent, as toFixed(0) leaves it         *)
(*   price                  cents                                          *)
(*   float                  millions of shares, as the float source gives  *)
(* null / undefined is the value Null.                                     *)
(***************************************************************************)
EXTENDS Integers, Sequences, FiniteSets, TLC

VARIABLES
    stocks,          \* MemStorage.stocks: Map in insertion order, as a sequence of Stock
    stockNews,       \* MemStorage.stockNews: symbol -> sequence of StockNews
    currentStockId,  \* MemStorage.currentStockId
    currentNewsId,   \* MemStorage.currentNewsId
    passes,          \* the fetchTopGappers invocations in flight, by slot
    now,             \* the clock as the latest interval callback read it: <<day, minutes>>
    clients,         \* wss.clients whose readyState is OPEN
    inbox,           \* per client: the stocks_update messages received, newest last
    ticks,           \* number of setInterval callbacks run so far
    runs,            \* number of fetchTopGappers invocations since the initial one
    pulls,           \* number of snapshot pulls answered so far (snapshot numbers)
    snapOf,          \* per symbol: snapshot number of the last write and of the last admission
    ret,             \* value returned by the last storage / report call
    queries,         \* number of report requests served so far
    running,         \* the server process is up: no rejection went unhandled
    page,            \* the StockScanner component of one browser: its state and fetches
    socket           \* the useWebSocket hook of that browser: its effects, sockets and timers

vars == <<stocks, stockNews, currentStockId, currentNewsId, passes, now, clients,
          inbox, ticks, runs, pulls, snapOf, ret, queries, running, page, socket>>

storeVars == <<stocks, stockNews, currentStockId, currentNewsId>>

serverVars == <<passes, now, clients, inbox, ticks, runs, pulls, snapOf, running>>

clientVars == <<page, socket>>

-----------------------------------------------------------------------------
(* Bounds of the model *)

MaxTicks == 1
MaxRuns == 1
MaxBatch == 1

Null == -1

-----------------------------------------------------------------------------
(* Arithmetic helpers *)

Abs(x) == IF x < 0 THEN 0 - x ELSE x

\* a / b rounded to the nearest integer, for a >= 0 and b > 0
RoundDiv(a, b) == (2 * a + b) \div (2 * b)

\* a * m / b rounded to the nearest integer, for a >= 0, m > 0 and b > 0; the
\* quotient and the remainder are scaled apart to stay within 32-bit integers
MulDiv(a, m, b) == (a \div b) * m + RoundDiv((a % b) * m, b)

\* JavaScript truthiness of a number-or-null value
Truthy(x) == x # Null /\ x # 0

\* Number.prototype.toFixed(2) of a value given in thousandths, as hundredths
ToFixed2(x) == IF x < 0 THEN 0 - ((Abs(x) + 5) \div 10) ELSE (x + 5) \div 10

\* { ...a, ...b }: the properties of b win, a null value included
Spread(a, b) ==
    [f \in DOMAIN a \cup DOMAIN b |-> IF f \in DOMAIN b THEN b[f] ELSE a[f]]

-----------------------------------------------------------------------------
(* MemStorage (server/storage.ts) *)

EmptyMap == [x \in {} |-> Null]

\* Map.set(key, value) on stockNews
MapSet(m, key, value) ==
    [x \in DOMAIN m \cup {key} |-> IF x = key THEN value ELSE m[x]]

\* this.stockNews.get(symbol) || []
NewsOf(sn, symbol) == IF symbol \in DOMAIN sn THEN sn[symbol] ELSE <<>>

\* position of the symbol's entry in the stocks Map, 0 when it has none
StockIndex(st, symbol) ==
    IF \E k \in 1..Len(st) : st[k].symbol = symbol
    THEN CHOOSE k \in 1..Len(st) : st[k].symbol = symbol
    ELSE 0

HasStock(st, symbol) == StockIndex(st, symbol) # 0

\* this.stocks.get(symbol), for a symbol the Map holds
getStock(st, symbol) == st[StockIndex(st, symbol)]

Symbols(st) == {st[k].symbol : k \in 1..Len(st)}

\* variant that takes a fresh id on every call
upsertStock_FreshId(st, nextId, stockData) ==
    LET k == StockIndex(st, stockData.symbol) IN
    IF k # 0
    THEN LET stock == Spread(Spread(st[k], [id |-> nextId]), stockData) IN
         [stocks |-> [st EXCEPT ![k] = stock], currentStockId |-> nextId + 1,
          stock |-> stock]
    ELSE LET stock == Spread([id |-> nextId], stockData) IN
         [stocks |-> Append(st, stock), currentStockId |-> nextId + 1,
          stock |-> stock]

\* upsertStock: { id: existing?.id || currentStockId++, ...existing, ...stockData }
upsertStock(st, nextId, stockData) ==
    LET k == StockIndex(st, stockData.symbol) IN
    IF k # 0
    THEN LET stock == Spread(Spread([id |-> st[k].id], st[k]), stockData) IN
         [stocks |-> [st EXCEPT ![k] = stock], currentStockId |-> nextId,
          stock |-> stock]
    ELSE LET stock == Spread([id |-> nextId], stockData) IN
         [stocks |-> Append(st, stock), currentStockId |-> nextId + 1,
          stock |-> stock]

\* updateStockPrices: every update that names a stored symbol is merged into
\* that symbol's record; the others are skipped
updateStockPrices(st, stockUpdates) ==
    LET F[n \in 0..Len(stockUpdates)] ==
            IF n = 0 THEN st
            ELSE LET update == stockUpdates[n]
                     k == IF "symbol" \in DOMAIN update
                          THEN StockIndex(F[n - 1], update.symbol) ELSE 0
                 IN  IF k # 0
                     THEN [F[n - 1] EXCEPT ![k] = Spread(F[n - 1][k], update)]
                     ELSE F[n - 1]
    IN  F[Len(stockUpdates)]

\* variant that compares titles only
SameNews_TitleOnly(existing, newsData) == existing.title = newsData.title

\* existing.title === newsData.title && existing.url === newsData.url
SameNews(existing, newsData) ==
    existing.title = newsData.title /\ existing.url = newsData.url

isDuplicate(existingNews, newsData) ==
    \E k \in 1..Len(existingNews) : SameNews(existingNews[k], newsData)

\* existingNews.find(...): the first stored item with that title and url
FindNews(existingNews, newsData) ==
    existingNews[CHOOSE k \in 1..Len(existingNews) :
        /\ SameNews(existingNews[k], newsData)
        /\ \A j \in 1..(k - 1) : ~SameNews(existingNews[j], newsData)]

\* addStockNews: the store after the call and the item it returns
addStockNews(st, sn, nextId, newsData) ==
    LET existingNews == NewsOf(sn, newsData.symbol) IN
    IF isDuplicate(existingNews, newsData)
    THEN [stocks |-> st, stockNews |-> sn, currentNewsId |-> nextId,
          news |-> FindNews(existingNews, newsData)]
    ELSE LET news == Spread([id |-> nextId], newsData)
             k == StockIndex(st, newsData.symbol)
         IN  [stocks |-> IF k # 0
                         THEN [st EXCEPT ![k] = Spread(st[k], [hasNews |-> TRUE])]
                         ELSE st,
              stockNews |-> MapSet(sn, newsData.symbol, Append(existingNews, news)),
              currentNewsId |-> nextId + 1,
              news |-> news]

\* Array.prototype.sort with a comparator f(a) - f(b): s in ascending order of
\* key (key[k] = f(s[k])), elements with equal keys in their order in s
StableSort(s, key) ==
    LET n == Len(s)
        rank == SubSeq([i \in 1..n |->
                          Cardinality({j \in 1..n :
                              \/ key[j] < key[i]
                              \/ (key[j] = key[i] /\ j < i)}) + 1], 1, n)
    IN  SubSeq([r \in 1..n |-> s[CHOOSE i \in 1..n : rank[i] = r]], 1, n)

\* Array.prototype.filter: the elements of s at the indices in kept, in order
SeqFilter(s, kept) ==
    LET m == Cardinality(kept)
    IN  SubSeq([r \in 1..m |->
                  s[CHOOSE k \in kept : Cardinality({j \in kept : j <= k}) = r]],
               1, m)

\* parseFloat(x || '0')
Num(x) == IF x = Null THEN 0 ELSE x

\* variant that ranks by the signed gap
AbsGapDescending_Signed(s) ==
    StableSort(s, [k \in 1..Len(s) |-> 0 - Num(s[k].gapPercentage)])

\* sort((a, b) => Math.abs(parseFloat(b.gapPercentage)) - Math.abs(parseFloat(a.gapPercentage)))
AbsGapDescending(s) ==
    StableSort(s, [k \in 1..Len(s) |-> 0 - Abs(Num(s[k].gapPercentage))])

\* sort((a, b) => parseFloat(b.gapPercentage) - parseFloat(a.gapPercentage))
GapDescending(s) == StableSort(s, [k \in 1..Len(s) |-> 0 - Num(s[k].gapPercentage)])

\* sort((a, b) => parseFloat(a.gapPercentage) - parseFloat(b.gapPercentage))
GapAscending(s) == StableSort(s, [k \in 1..Len(s) |-> Num(s[k].gapPercentage)])

\* Array.prototype.slice(0, limit)
Slice(s, limit) == SubSeq(s, 1, IF Len(s) < limit THEN Len(s) ELSE limit)

\* getTopGappers's default limit
DefaultLimit == 50

\* { ...stock, newsCount: this.stockNews.get(stock.symbol)?.length || 0 }
WithNewsCount(sn, stock) ==
    Spread(stock, [newsCount |-> Len(NewsOf(sn, stock.symbol))])

HasGap(stock) == stock.gapPercentage # Null

\* getTopGappers(limit)
getTopGappers(st, sn, limit) ==
    LET kept == SeqFilter(st, {k \in 1..Len(st) : HasGap(st[k])})
        top == Slice(AbsGapDescending(kept), limit)
    IN  SubSeq([k \in 1..Len(top) |-> WithNewsCount(sn, top[k])], 1, Len(top))

\* getPositiveGappers / getNegativeGappers: no limit
PositiveGap(stock) == stock.gapPercentage # Null /\ stock.gapPercentage > 0
NegativeGap(stock) == stock.gapPercentage # Null /\ stock.gapPercentage < 0

getPositiveGappers(st, sn) ==
    LET sorted == GapDescending(SeqFilter(st, {k \in 1..Len(st) : PositiveGap(st[k])}))
    IN  SubSeq([k \in 1..Len(sorted) |-> WithNewsCount(sn, sorted[k])], 1, Len(sorted))

getNegativeGappers(st, sn) ==
    LET sorted == GapAscending(SeqFilter(st, {k \in 1..Len(st) : NegativeGap(st[k])}))
    IN  SubSeq([k \in 1..Len(sorted) |-> WithNewsCount(sn, sorted[k])], 1, Len(sorted))

-----------------------------------------------------------------------------
(* The report endpoints (server/routes.ts) *)

\* the five Moys criteria of GET /api/stocks/gappers?filter=moys
criterion1(stock) == Num(stock.relativeVolume) >= 500 * 100
criterion2(stock) == Num(stock.gapPercentage) >= 10 * 100
criterion3(stock) == stock.hasNews = TRUE
criterion4(stock) == Num(stock.price) >= 100 /\ Num(stock.price) <= 2000
\* floatShares = stock.float ? stock.float * 1000000 : null
criterion5(stock) ==
    IF Truthy(stock.float) THEN stock.float * 1000000 < 10000000
    ELSE Num(stock.volume) < 10000000

\* [criterion1, ..., criterion5].filter(Boolean).length
metCriteria(stock) ==
    Cardinality({c \in 1..5 :
        \/ c = 1 /\ criterion1(stock)
        \/ c = 2 /\ criterion2(stock)
        \/ c = 3 /\ criterion3(stock)
        \/ c = 4 /\ criterion4(stock)
        \/ c = 5 /\ criterion5(stock)})

\* variant that asks for 2 criteria
MoysFilter_TwoOfFive(stock) == metCriteria(stock) >= 2

\* return metCriteria >= 3
MoysFilter(stock) == metCriteria(stock) >= 3

SmallCapFilter(stock) == Num(stock.price) >= 100 /\ Num(stock.price) <= 5000

RossFilter(stock) ==
    /\ Abs(Num(stock.gapPercentage)) >= 500
    /\ Num(stock.price) >= 100 /\ Num(stock.price) <= 2000
    /\ Num(stock.relativeVolume) >= 20000

ReversalFilter(stock) ==
    Num(stock.gapPercentage) < 0 - 200 /\ Num(stock.relativeVolume) >= 15000

AfterHoursFilter(stock) == Num(stock.gapPercentage) >= 1000

ContinuationFilter(stock) ==
    Num(stock.gapPercentage) >= 500 /\ Num(stock.relativeVolume) >= 30000

RecentIpoFilter(stock) ==
    /\ Num(stock.price) >= 500 /\ Num(stock.price) <= 10000
    /\ Abs(Num(stock.gapPercentage)) >= 1000
    /\ Num(stock.relativeVolume) >= 50000

GainerFilter(stock) == Num(stock.gapPercentage) > 0
LoserFilter(stock) == Num(stock.gapPercentage) < 0

\* sort((a, b) => parseFloat(b.relativeVolume) - parseFloat(a.relativeVolume))
RelativeVolumeDescending(s) ==
    StableSort(s, [k \in 1..Len(s) |-> 0 - Num(s[k].relativeVolume)])

Volume5MinFilter(stock) ==
    stock.relativeVolumeMin # Null /\ stock.relativeVolumeMin >= 200
\* sort((a, b) => parseFloat(b.relativeVolumeMin) - parseFloat(a.relativeVolumeMin))
Volume5MinDescending(s) ==
    StableSort(s, [k \in 1..Len(s) |-> 0 - Num(s[k].relativeVolumeMin)])

LargeCapMomentumFilter(stock) == Num(stock.price) >= 5000

LargeCapGappersFilter(stock) ==
    Num(stock.price) >= 2000 /\ Abs(Num(stock.gapPercentage)) >= 300

EarningsGapFilter(stock) ==
    /\ stock.hasNews = TRUE
    /\ Abs(Num(stock.gapPercentage)) >= 500
    /\ Num(stock.price) >= 2000

PennyFilter(stock) ==
    /\ Num(stock.price) >= 1 /\ Num(stock.price) <= 500
    /\ Abs(Num(stock.gapPercentage)) >= 1000

HaltFilter(stock) ==
    Abs(Num(stock.gapPercentage)) >= 5000 \/ Num(stock.relativeVolume) >= 100000

\* the gap-based stand-in for the Good RSI filter
RsiTrendFilter(stock) ==
    LET gapPercent == Num(stock.gapPercentage)
        relativeVolume == Num(stock.relativeVolume)
        price == Num(stock.price)
        rsiAbove50 == gapPercent > 0
        rsiBetween55_70 == gapPercent >= 500 /\ gapPercent <= 5000
        rsiIncreasing == relativeVolume >= 20000
        priceAboveMA == price >= 100 /\ price <= 5000
        macdPositive == gapPercent > 0 /\ relativeVolume >= 30000
        volumeAboveAverage == relativeVolume >= 20000
    IN  /\ rsiAbove50 /\ rsiBetween55_70 /\ rsiIncreasing
        /\ priceAboveMA /\ macdPositive /\ volumeAboveAverage

\* .slice(0, 15) of the rsi-trend report
RsiTrendLimit == 15

\* the indicator stand-ins added to each rsi-trend row, in hundredths
RsiEnriched(stock) ==
    LET gapPercent == Num(stock.gapPercentage)
        rsiProxy == 5000 + RoundDiv(gapPercent * 4, 10)
    IN  Spread(stock,
               [rsi |-> IF rsiProxy < 8500 THEN rsiProxy ELSE 8500,
                macd |-> IF gapPercent > 1000 THEN 10 ELSE 5,
                macdSignal |-> 3,
                macdHistogram |-> IF gapPercent > 1000 THEN 7 ELSE 2,
                sma20 |-> RoundDiv(Num(stock.price) * 95, 100),
                sma50 |-> RoundDiv(Num(stock.price) * 90, 100),
                avgVolume20d |-> MulDiv(Num(stock.volume), 10000,
                                        Num(stock.relativeVolume))])

ReportIds ==
    {"all", "positive", "negative", "moys", "small-cap-momentum", "ross-gappers",
     "reversal", "after-hours-gainers", "continuation", "recent-ipo", "top-gainers",
     "top-losers", "relative-volume", "volume-5min", "large-cap-momentum",
     "large-cap-gappers", "earnings-gap", "penny-gappers", "halt", "rsi-trend"}

\* the JSON array each endpoint answers with
Report(id, st, sn) ==
    LET top == getTopGappers(st, sn, DefaultLimit)
        Only(Keep(_)) == SeqFilter(top, {k \in 1..Len(top) : Keep(top[k])})
    IN
    CASE id = "all" -> top
      [] id = "positive" -> getPositiveGappers(st, sn)
      [] id = "negative" -> getNegativeGappers(st, sn)
      [] id = "moys" -> GapDescending(Only(MoysFilter))
      [] id = "small-cap-momentum" -> Only(SmallCapFilter)
      [] id = "ross-gappers" -> Only(RossFilter)
      [] id = "reversal" -> Only(ReversalFilter)
      [] id = "after-hours-gainers" -> Only(AfterHoursFilter)
      [] id = "continuation" -> Only(ContinuationFilter)
      [] id = "recent-ipo" -> Only(RecentIpoFilter)
      [] id = "top-gainers" -> GapDescending(Only(GainerFilter))
      [] id = "top-losers" -> GapAscending(Only(LoserFilter))
      [] id = "relative-volume" -> RelativeVolumeDescending(top)
      [] id = "volume-5min" ->
            Volume5MinDescending(Only(Volume5MinFilter))
      [] id = "large-cap-momentum" -> Only(LargeCapMomentumFilter)
      [] id = "large-cap-gappers" -> Only(LargeCapGappersFilter)
      [] id = "earnings-gap" -> Only(EarningsGapFilter)
      [] id = "penny-gappers" -> Only(PennyFilter)
      [] id = "halt" -> Only(HaltFilter)
      [] id = "rsi-trend" ->
            LET rsiStocks == Slice(Only(RsiTrendFilter), RsiTrendLimit)
            IN  [k \in 1..Len(rsiStocks) |-> RsiEnriched(rsiStocks[k])]

-----------------------------------------------------------------------------
(* isMarketOpen (server/routes.ts) *)

\* easternTime.getDay(): 0 = Sunday .. 6 = Saturday
Sunday == 0
Saturday == 6

\* 9 * 60 + 30 and 16 * 60
marketOpen == 9 * 60 + 30
marketClose == 16 * 60

\* variant without the weekend test
isMarketOpen_EveryDay(t) == t[2] >= marketOpen /\ t[2] < marketClose

\* variant that counts the closing minute as open
isMarketOpen_ClosingIncluded(t) ==
    IF t[1] = Sunday \/ t[1] = Saturday THEN FALSE
    ELSE t[2] >= marketOpen /\ t[2] <= marketClose

\* hours * 60 + minutes
currentMinutes(hours, minutes) == hours * 60 + minutes

\* t = <<day, currentMinutes>> in exchange-local time
isMarketOpen(t) ==
    IF t[1] = Sunday \/ t[1] = Saturday THEN FALSE
    ELSE t[2] >= marketOpen /\ t[2] < marketClose

-----------------------------------------------------------------------------
(* The inputs the environment can hand to the server *)

Slots == {1, 2}
Clients == {"c1"}

\* clock readings: Monday 09:30, Monday 16:00, Saturday 10:00
Times == {<<1, 570>>, <<1, 960>>, <<6, 600>>}

\* Snapshot ticker records: [ticker, todaysChangePerc, day.c, day.v, prevDay.v]
Ticker(t, perc, c, v, pv) == [ticker |-> t, perc |-> perc, c |-> c, v |-> v, pv |-> pv]

Tickers ==
    { Ticker("A", 5000, 1000, 50000, 10000),     \* volume exactly at the floor
      Ticker("A", 3010, 1000, 50001, 10000),     \* just above both thresholds
      Ticker("A", 3000, 1000, 60000, 10000),     \* gap exactly 3.0
      Ticker("A", 0 - 3004, 2500, 12000000, 80000),  \* stored as -3.00
      Ticker("B", 12000, 500, 60000, 0) }        \* no prior volume

\* records that lack a required numeric field: today's close, today's volume,
\* the percent change, or the whole day object
MalformedTickers ==
    { Ticker("M", 5000, Null, 60000, 10000),
      Ticker("M", 5000, 1000, Null, 10000),
      Ticker("M", Null, 1000, 60000, 10000),
      Ticker("M", 5000, Null, Null, 10000) }

RECURSIVE SeqsUpTo(_, _)
SeqsUpTo(S, n) ==
    IF n = 0 THEN {<<>>}
    ELSE LET shorter == SeqsUpTo(S, n - 1)
         IN  shorter \cup {Append(q, x) : q \in shorter, x \in S}

\* allStocks after a successful pull: gainers followed by losers
Batches == SeqsUpTo(Tickers, MaxBatch)

\* News articles: [title, description, article_url]
Article(t, u) == [title |-> t, description |-> "d", article_url |-> u]

\* the news source's answer: ok = FALSE when the fetch throws or status is not OK
NewsAnswers ==
    { [ok |-> FALSE, results |-> <<>>],
      [ok |-> TRUE, results |-> <<>>],
      [ok |-> TRUE, results |-> <<Article("t1", "u1")>>] }

\* minuteRelativeVolume computed from the minute bars, Null when they give none
MinuteAnswers == {Null, 250}

\* 0.7 + Math.random() * 0.6, in percent
Variances == {70, 129}

\* float in millions of shares as the float source reports it, Null when absent
FloatAnswers == {Null, 5}

-----------------------------------------------------------------------------
(* fetchTopGappers (server/routes.ts) *)

\* minimum volume requirement: day.v > 50000
MinVolume == 50000

\* significant gap: Math.abs(gapPercentage) > 3 (percent)
MinGap == 3

\* newsData.results.slice(0, 5)
NewsStored == 5

\* variant that admits the floor itself
PassesVolume_AtLeast(stock) == stock.v >= MinVolume

\* variant without a volume floor
PassesVolume_Unfiltered(stock) == stock.v # Null

\* day && prevDay && day.v > 50000 (undefined > 50000 is false)
PassesVolume(stock) == stock.v # Null /\ stock.v > MinVolume

\* variant that admits the threshold itself
PassesGap_AtLeast(stock) == Abs(stock.perc) >= MinGap * 1000

\* Math.abs(gapPercentage) > 3 (Math.abs(undefined) is NaN, and NaN > 3 is false)
PassesGap(stock) == stock.perc # Null /\ Abs(stock.perc) > MinGap * 1000

\* variant with no answer for a prior volume of 0
RelativeVolume_Undefined(stock) ==
    IF Truthy(stock.pv) THEN MulDiv(stock.v, 10000, stock.pv) ELSE Null

\* prevDay.v ? volume / prevDay.v : 1, times 100, toFixed(2)
RelativeVolume(stock) ==
    IF Truthy(stock.pv) THEN MulDiv(stock.v, 10000, stock.pv) ELSE 10000

\* fallback: (relativeVolumeRatio * 100 * variance).toFixed(0)
FallbackMinute(stock, variance) == MulDiv(stock.v, variance, stock.pv)

\* minuteRelativeVolume after the minute fetch and the fallback
MinuteRelativeVolume(stock, minute, variance) ==
    IF minute = Null /\ stock.pv > 0 THEN FallbackMinute(stock, variance) ELSE minute

\* article_url || null, description || null
OrNull(str) == IF str = "" THEN "null" ELSE str

NewsData(symbol, article) ==
    [symbol |-> symbol, title |-> article.title,
     summary |-> OrNull(article.description), url |-> OrNull(article.article_url)]

\* variant that stores none of the articles
StoreNews_Skipping(st, sn, nextId, symbol, results) ==
    [stocks |-> st, stockNews |-> sn, currentNewsId |-> nextId]

\* for (const article of results.slice(0, 5)) await storage.addStockNews(...)
StoreNews(st, sn, nextId, symbol, results) ==
    LET arts == Slice(results, NewsStored)
        F[k \in 0..Len(arts)] ==
            IF k = 0
            THEN [stocks |-> st, stockNews |-> sn, currentNewsId |-> nextId]
            ELSE addStockNews(F[k - 1].stocks, F[k - 1].stockNews,
                              F[k - 1].currentNewsId, NewsData(symbol, arts[k]))
    IN  F[Len(arts)]

\* existingStock?.float || null
ExistingFloat(st, symbol) ==
    IF HasStock(st, symbol) /\ Truthy(getStock(st, symbol).float)
    THEN getStock(st, symbol).float
    ELSE Null

StockData(stock, float, minuteRV, hasRealNews, newsCount) ==
    [symbol |-> stock.ticker,
     price |-> stock.c,
     volume |-> stock.v,
     float |-> float,
     gapPercentage |-> ToFixed2(stock.perc),
     relativeVolume |-> RelativeVolume(stock),
     relativeVolumeMin |-> minuteRV,
     hasNews |-> hasRealNews,
     newsCount |-> newsCount]

\* floatData[stock.symbol] || stock.float || null
FloatOr(answer, float) ==
    IF Truthy(answer) THEN answer ELSE IF Truthy(float) THEN float ELSE Null

\* for (const stock of updatedGappers) await storage.upsertStock(stock)
StoreAll(st, nextId, updated) ==
    LET F[k \in 0..Len(updated)] ==
            IF k = 0 THEN [stocks |-> st, currentStockId |-> nextId]
            ELSE upsertStock(F[k - 1].stocks, F[k - 1].currentStockId, updated[k])
    IN  F[Len(updated)]

\* no storage or report call has returned yet
NoCall == [call |-> "none"]

\* no browser has loaded the page
NoPage == [mounted |-> FALSE]
NoSocket == [mounted |-> FALSE]

IdlePass ==
    [pc |-> "idle", origin |-> "none", client |-> "none", batch |-> <<>>, i |-> 0,
     gappers |-> <<>>, hasRealNews |-> FALSE, newsCount |-> 0, snap |-> 0]

\* sortedGappers.map(stock => stock.symbol)
GapperSymbols(p) == {passes[p].gappers[k].symbol : k \in 1..Len(passes[p].gappers)}

InFlight == {p \in Slots : passes[p].pc # "idle"}

\* the lowest free slot takes the next invocation
FreeSlot == CHOOSE p \in Slots \ InFlight : \A q \in Slots \ InFlight : p <= q

\* a slot is free for one more invocation
CanStart == Slots \ InFlight # {}

Started(origin, client) ==
    [passes EXCEPT ![FreeSlot] =
        [IdlePass EXCEPT !.pc = "pull", !.origin = origin, !.client = client]]

NoMsg == [type |-> "none", data |-> <<>>, timestamp |-> FALSE]

\* variant in which client.send delivers nothing
Received_Dropped(box, msg) == box

\* client.send(JSON.stringify(msg)) as the client's inbox sees it
Received(box, msg) == [n |-> box.n + 1, last |-> msg]

\* variant in which the interval callback has no try / catch
Caught_OutsideTick(origin) == origin \in {"init", "http", "ws"}

\* the callers of fetchTopGappers() that catch its rejection: the initial fetch
\* (.catch(console.error)), the interval callback, POST /refresh and the
\* WebSocket message handler (try / catch)
Caught(origin) == origin \in {"init", "tick", "http", "ws"}

\* what the caller of fetchTopGappers does once the pass has settled, with the
\* store as the pass left it: the interval callback broadcasts to every OPEN
\* client, the WebSocket handler answers its own socket, POST /refresh answers
\* over HTTP, and the initial fetch only logs
\* A rejection of fetchTopGappers() that no caller catches would end the process.
Settled(p, st, sn, ok) ==
    LET stocksNow == getTopGappers(st, sn, DefaultLimit) IN
    /\ inbox' =
        IF ok /\ passes[p].origin = "tick"
        THEN [c \in Clients |->
                IF c \in clients
                THEN Received(inbox[c], [type |-> "stocks_update", data |-> stocksNow,
                                         timestamp |-> TRUE])
                ELSE inbox[c]]
        ELSE IF ok /\ passes[p].origin = "ws" /\ passes[p].client \in clients
        THEN [inbox EXCEPT ![passes[p].client] =
                Received(@, [type |-> "stocks_update", data |-> stocksNow,
                             timestamp |-> FALSE])]
        ELSE inbox
    /\ running' = (running /\ (ok \/ Caught(passes[p].origin)))

\* bookkeeping for the snapshot claims: a pass working on snapshot number snap
\* has admitted the record stock and written it
Admitted(so, stock, snap) ==
    MapSet(so, stock.ticker,
           IF stock.ticker \in DOMAIN so /\ so[stock.ticker].admitted > snap
           THEN [so[stock.ticker] EXCEPT !.written = snap]
           ELSE [written |-> snap, admitted |-> snap, latest |-> stock])

\* ... and has written the symbol again in its float phase
Rewrote(so, symbol, snap) == [so EXCEPT ![symbol].written = snap]

\* the snapshot pull answers: allStocks is built and the batch loop starts
PullOk(p, allStocks) ==
    /\ passes[p].pc = "pull"
    /\ pulls' = pulls + 1
    /\ passes' = [passes EXCEPT ![p].pc = "admit", ![p].batch = allStocks,
                                ![p].i = 1, ![p].snap = pulls + 1]
    /\ UNCHANGED <<storeVars, now, clients, inbox, ticks, runs, snapOf, ret, queries, running, clientVars>>

\* variant in which a failed pull empties the store
PullFail_Emptying(p) ==
    /\ passes[p].pc = "pull"
    /\ passes' = [passes EXCEPT ![p] = IdlePass]
    /\ Settled(p, stocks, stockNews, FALSE)
    /\ stocks' = <<>>
    /\ stockNews' = EmptyMap
    /\ UNCHANGED <<currentStockId, currentNewsId, now, clients, ticks, runs, pulls,
                   snapOf, ret, queries, clientVars>>

\* the snapshot pull throws: the outer catch rethrows to the caller
PullFail(p) ==
    /\ passes[p].pc = "pull"
    /\ passes' = [passes EXCEPT ![p] = IdlePass]
    /\ Settled(p, stocks, stockNews, FALSE)
    /\ UNCHANGED <<storeVars, now, clients, ticks, runs, pulls, snapOf, ret, queries, clientVars>>

\* the admission filters on the record at hand; an admitted record waits for
\* its news lookup, a dropped one gives way to the next
Admit(p) ==
    /\ passes[p].pc = "admit"
    /\ passes[p].i <= Len(passes[p].batch)
    /\ LET stock == passes[p].batch[passes[p].i] IN
       passes' = IF PassesVolume(stock) /\ PassesGap(stock)
                 THEN [passes EXCEPT ![p].pc = "news"]
                 ELSE [passes EXCEPT ![p].i = @ + 1]
    /\ UNCHANGED <<storeVars, now, clients, inbox, ticks, runs, pulls, snapOf, ret, queries, running, clientVars>>

\* the news lookup settles: articles are stored, then the minute bars are asked for
NewsResult(p, answer) ==
    /\ passes[p].pc = "news"
    /\ LET stock == passes[p].batch[passes[p].i]
           found == answer.ok /\ Len(answer.results) > 0
           after == StoreNews(stocks, stockNews, currentNewsId, stock.ticker,
                              answer.results)
       IN  /\ passes' = [passes EXCEPT ![p].pc = "minute",
                                       ![p].hasRealNews = found,
                                       ![p].newsCount =
                                            IF found THEN Len(answer.results) ELSE 0]
           /\ stocks' = IF found THEN after.stocks ELSE stocks
           /\ stockNews' = IF found THEN after.stockNews ELSE stockNews
           /\ currentNewsId' = IF found THEN after.currentNewsId ELSE currentNewsId
    /\ UNCHANGED <<currentStockId, now, clients, inbox, ticks, runs, pulls, snapOf, ret, queries, running, clientVars>>

\* the minute fetch settles: stockData is built on the float read back from the
\* store, upserted and pushed to gappers.  Building stockData evaluates
\* currentPrice.toString(): with day.c undefined that is a TypeError, which
\* nothing inside the loop catches, so the outer catch rethrows to the caller
MinuteResult(p, minute, variance) ==
    /\ passes[p].pc = "minute"
    /\ LET stock == passes[p].batch[passes[p].i]
           stockData == StockData(stock, ExistingFloat(stocks, stock.ticker),
                                  MinuteRelativeVolume(stock, minute, variance),
                                  passes[p].hasRealNews, passes[p].newsCount)
           after == upsertStock(stocks, currentStockId, stockData)
       IN  IF stock.c = Null
           THEN /\ passes' = [passes EXCEPT ![p] = IdlePass]
                /\ Settled(p, stocks, stockNews, FALSE)
                /\ UNCHANGED <<stocks, currentStockId, snapOf>>
           ELSE /\ stocks' = after.stocks
                /\ currentStockId' = after.currentStockId
                /\ passes' = [passes EXCEPT ![p].pc = "admit", ![p].i = @ + 1,
                                            ![p].gappers = Append(@, stockData)]
                /\ snapOf' = Admitted(snapOf, stock, passes[p].snap)
                /\ UNCHANGED <<inbox, running>>
    /\ UNCHANGED <<stockNews, currentNewsId, now, clients, ticks, runs, pulls, ret, queries, clientVars>>

\* the batch loop is over: gappers is sorted and cut, and the float phase is
\* entered or skipped (Math.random() < 0.6)
EndLoop(p, shouldFetchFloat) ==
    /\ passes[p].pc = "admit"
    /\ passes[p].i > Len(passes[p].batch)
    /\ LET sortedGappers == Slice(AbsGapDescending(passes[p].gappers),
                                  DefaultLimit)
       IN  IF shouldFetchFloat
           THEN /\ passes' = [passes EXCEPT ![p].pc = "float",
                                            ![p].gappers = sortedGappers]
                /\ UNCHANGED <<inbox, running>>
           ELSE /\ passes' = [passes EXCEPT ![p] = IdlePass]
                /\ Settled(p, stocks, stockNews, TRUE)
    /\ UNCHANGED <<storeVars, now, clients, ticks, runs, pulls, snapOf, ret, queries, clientVars>>

\* fetchFloatData settles: every sorted gapper is upserted again with its float
FloatResult(p) ==
    /\ passes[p].pc = "float"
    /\ \E floatData \in [GapperSymbols(p) -> FloatAnswers] :
       LET sortedGappers == passes[p].gappers
           updatedGappers ==
               [k \in 1..Len(sortedGappers) |->
                   Spread(sortedGappers[k],
                          [float |-> FloatOr(floatData[sortedGappers[k].symbol],
                                             sortedGappers[k].float)])]
           after == StoreAll(stocks, currentStockId, updatedGappers)
           W[k \in 0..Len(updatedGappers)] ==
               IF k = 0 THEN snapOf
               ELSE Rewrote(W[k - 1], updatedGappers[k].symbol, passes[p].snap)
       IN  /\ stocks' = after.stocks
           /\ currentStockId' = after.currentStockId
           /\ snapOf' = W[Len(updatedGappers)]
           /\ passes' = [passes EXCEPT ![p] = IdlePass]
           /\ Settled(p, after.stocks, stockNews, TRUE)
    /\ UNCHANGED <<stockNews, currentNewsId, now, clients, ticks, runs, pulls, ret, queries, clientVars>>

-----------------------------------------------------------------------------
(* registerRoutes: the interval callback, the refresh entry points, the sockets *)

\* setInterval callback, run when the clock reads t:
\* if (isMarketOpen()) { await fetchTopGappers(); ... }
Tick(t) ==
    /\ isMarketOpen(t) => CanStart
    /\ ticks' = ticks + 1
    /\ now' = t
    /\ IF isMarketOpen(t)
       THEN passes' = Started("tick", "none") /\ runs' = runs + 1
       ELSE UNCHANGED <<passes, runs>>
    /\ UNCHANGED <<storeVars, clients, inbox, pulls, snapOf, ret, queries, running, clientVars>>

\* variant that starts a pass in every free slot
HttpRefresh_EverySlot ==
    /\ CanStart
    /\ passes' = [p \in Slots |->
                    IF passes[p].pc = "idle"
                    THEN [IdlePass EXCEPT !.pc = "pull", !.origin = "http"]
                    ELSE passes[p]]
    /\ runs' = runs + 1
    /\ UNCHANGED <<storeVars, now, clients, inbox, ticks, pulls, snapOf, ret, queries, running, clientVars>>

\* POST /api/stocks/refresh
HttpRefresh ==
    /\ CanStart
    /\ passes' = Started("http", "none")
    /\ runs' = runs + 1
    /\ UNCHANGED <<storeVars, now, clients, inbox, ticks, pulls, snapOf, ret, queries, running, clientVars>>

\* WebSocket message { type: 'refresh' }
WsRefresh(c) ==
    /\ c \in clients
    /\ CanStart
    /\ passes' = Started("ws", c)
    /\ runs' = runs + 1
    /\ UNCHANGED <<storeVars, now, clients, inbox, ticks, pulls, snapOf, ret, queries, running, clientVars>>

\* a socket opens or closes
Connect(c) ==
    /\ c \notin clients
    /\ clients' = clients \cup {c}
    /\ UNCHANGED <<storeVars, passes, now, inbox, ticks, runs, pulls, snapOf, ret, queries, running, clientVars>>

Disconnect(c) ==
    /\ c \in clients
    /\ clients' = clients \ {c}
    /\ UNCHANGED <<storeVars, passes, now, inbox, ticks, runs, pulls, snapOf, ret, queries, running, clientVars>>

\* the server once registerRoutes has returned: an empty store and the initial
\* fetchTopGappers() waiting for its snapshot
Init ==
    /\ stocks = <<>>
    /\ stockNews = EmptyMap
    /\ currentStockId = 1
    /\ currentNewsId = 1
    /\ passes = [p \in Slots |->
                    IF p = 1 THEN [IdlePass EXCEPT !.pc = "pull", !.origin = "init"]
                    ELSE IdlePass]
    /\ now \in Times
    /\ clients = {}
    /\ inbox = [c \in Clients |-> [n |-> 0, last |-> NoMsg]]
    /\ ticks = 0
    /\ runs = 0
    /\ pulls = 0
    /\ snapOf = EmptyMap
    /\ ret = NoCall
    /\ queries = 0
    /\ running = TRUE
    /\ page = NoPage
    /\ socket = NoSocket

\* the callbacks and invocations explored are capped by MaxTicks and MaxRuns
Next ==
    \/ \E t \in Times :
            ticks < MaxTicks /\ (isMarketOpen(t) => runs < MaxRuns) /\ Tick(t)
    \/ runs < MaxRuns /\ HttpRefresh
    \/ \E c \in Clients : runs < MaxRuns /\ WsRefresh(c)
    \/ \E c \in Clients : Connect(c)
    \/ \E c \in Clients : Disconnect(c)
    \/ \E p \in Slots, allStocks \in Batches : PullOk(p, allStocks)
    \/ \E p \in Slots : PullFail(p)
    \/ \E p \in Slots : Admit(p)
    \/ \E p \in Slots, answer \in NewsAnswers : NewsResult(p, answer)
    \/ \E p \in Slots, minute \in MinuteAnswers, variance \in Variances :
            MinuteResult(p, minute, variance)
    \/ \E p \in Slots, shouldFetchFloat \in BOOLEAN : EndLoop(p, shouldFetchFloat)
    \/ \E p \in Slots : FloatResult(p)

Spec == Init /\ [][Next]_vars

-----------------------------------------------------------------------------
(* The initial fetch alone, on snapshots that may hold malformed records *)
(* (SpecFeed)                                                            *)

\* records per snapshot
MaxFeed == 2

\* allStocks of a snapshot in which any record may be malformed
Feeds == SeqsUpTo(Tickers \cup MalformedTickers, MaxFeed)

\* the news source asked with limit=10 may answer with more than five articles
FeedNewsAnswers ==
    NewsAnswers \cup
    { [ok |-> TRUE,
       results |-> <<Article("t1", "u1"), Article("t2", "u2"), Article("t3", "u3"),
                     Article("t4", "u4"), Article("t5", "u5"), Article("t6", "u6")>>] }

NextFeed ==
    \/ \E p \in Slots, allStocks \in Feeds : PullOk(p, allStocks)
    \/ \E p \in Slots : PullFail(p)
    \/ \E p \in Slots : Admit(p)
    \/ \E p \in Slots, answer \in FeedNewsAnswers : NewsResult(p, answer)
    \/ \E p \in Slots, minute \in MinuteAnswers, variance \in Variances :
            MinuteResult(p, minute, variance)
    \/ \E p \in Slots, shouldFetchFloat \in BOOLEAN : EndLoop(p, shouldFetchFloat)
    \/ \E p \in Slots : FloatResult(p)

SpecFeed == Init /\ [][NextFeed]_vars

-----------------------------------------------------------------------------
(* The interval callback over several ticks, on small snapshots (SpecLoop) *)

\* interval callbacks and pipeline invocations explored
MaxLoopTicks == 2
MaxLoopRuns == 2

\* allStocks: nothing, one admissible record, one record without a close
LoopBatches ==
    { <<>>,
      <<Ticker("A", 3010, 1000, 50001, 10000)>>,
      <<Ticker("M", 5000, Null, 60000, 10000)>> }

NextLoop ==
    \/ \E t \in Times :
            /\ ticks < MaxLoopTicks
            /\ isMarketOpen(t) => runs < MaxLoopRuns
            /\ Tick(t)
    \/ \E c \in Clients : Connect(c)
    \/ \E c \in Clients : Disconnect(c)
    \/ \E p \in Slots, allStocks \in LoopBatches : PullOk(p, allStocks)
    \/ \E p \in Slots : PullFail(p)
    \/ \E p \in Slots : Admit(p)
    \/ \E p \in Slots, answer \in NewsAnswers : NewsResult(p, answer)
    \/ \E p \in Slots, minute \in MinuteAnswers, variance \in Variances :
            MinuteResult(p, minute, variance)
    \/ \E p \in Slots, shouldFetchFloat \in BOOLEAN : EndLoop(p, shouldFetchFloat)
    \/ \E p \in Slots : FloatResult(p)

SpecLoop == Init /\ [][NextLoop]_vars

-----------------------------------------------------------------------------
(* The storage interface called directly (SpecStore) *)

\* InsertStock values
InsertStock(symbol, float, hasNews) ==
    [symbol |-> symbol, price |-> 1000, volume |-> 60000, float |-> float,
     gapPercentage |-> 500, relativeVolume |-> 60000, relativeVolumeMin |-> Null,
     hasNews |-> hasNews, newsCount |-> 0]

InsertStocks ==
    {InsertStock(symbol, float, hasNews) :
        symbol \in {"A", "B"}, float \in {Null, 5}, hasNews \in BOOLEAN}

\* InsertStockNews values
InsertNews(symbol, title, url, summary) ==
    [symbol |-> symbol, title |-> title, summary |-> summary, url |-> url]

InsertStockNewsSet ==
    { InsertNews("A", "t1", "u1", "s1"),
      InsertNews("A", "t1", "u1", "s2"),     \* the same title and url again
      InsertNews("A", "t1", "null", "s1"),   \* the same title, no url
      InsertNews("A", "t2", "u1", "s1"),     \* the same url, another title
      InsertNews("B", "t1", "u1", "s1") }    \* the same item for another symbol

StoreUpsertStock(stockData) ==
    /\ LET after == upsertStock(stocks, currentStockId, stockData) IN
          /\ stocks' = after.stocks
          /\ currentStockId' = after.currentStockId
          /\ ret' = [call |-> "upsertStock", arg |-> stockData, result |-> after.stock]
    /\ UNCHANGED <<stockNews, currentNewsId, serverVars, queries, clientVars>>

\* Partial<InsertStock> values: a price for A, a price and a volume for B, an
\* update that names no symbol
StockUpdates ==
    { [symbol |-> "A", price |-> 1234],
      [symbol |-> "B", price |-> 990, volume |-> 70000],
      [price |-> 1] }

StockUpdateLists ==
    {<<u>> : u \in StockUpdates}
        \cup {<<[symbol |-> "A", price |-> 1234], [symbol |-> "B", price |-> 990, volume |-> 70000]>>}

StoreUpdateStockPrices(stockUpdates) ==
    /\ stocks' = updateStockPrices(stocks, stockUpdates)
    /\ ret' = [call |-> "updateStockPrices", arg |-> stockUpdates]
    /\ UNCHANGED <<stockNews, currentStockId, currentNewsId, serverVars, queries, clientVars>>

StoreAddStockNews(newsData) ==
    /\ LET after == addStockNews(stocks, stockNews, currentNewsId, newsData) IN
          /\ stocks' = after.stocks
          /\ stockNews' = after.stockNews
          /\ currentNewsId' = after.currentNewsId
          /\ ret' = [call |-> "addStockNews", arg |-> newsData, result |-> after.news]
    /\ UNCHANGED <<currentStockId, serverVars, queries, clientVars>>

\* a fresh MemStorage and no pass in flight
InitStore ==
    /\ stocks = <<>>
    /\ stockNews = EmptyMap
    /\ currentStockId = 1
    /\ currentNewsId = 1
    /\ passes = [p \in Slots |-> IdlePass]
    /\ now = <<1, 570>>
    /\ clients = {}
    /\ inbox = [c \in Clients |-> [n |-> 0, last |-> NoMsg]]
    /\ ticks = 0
    /\ runs = 0
    /\ pulls = 0
    /\ snapOf = EmptyMap
    /\ ret = NoCall
    /\ queries = 0
    /\ running = TRUE
    /\ page = NoPage
    /\ socket = NoSocket

NextStore ==
    \/ \E stockData \in InsertStocks : StoreUpsertStock(stockData)
    \/ \E newsData \in InsertStockNewsSet : StoreAddStockNews(newsData)
    \/ \E stockUpdates \in StockUpdateLists : StoreUpdateStockPrices(stockUpdates)

SpecStore == InitStore /\ [][NextStore]_vars

-----------------------------------------------------------------------------
(* The report endpoints queried on a populated store (SpecReports) *)

\* how far past getTopGappers's limit the populated stores go
MaxOver == 1

\* report requests served per populated store
MaxQueries == 1

\* a stored record; tickers are numbered
StockRow(id, symbol, price, volume, float, gap, relVol, relVolMin, hasNews) ==
    [id |-> id, symbol |-> symbol, price |-> price, volume |-> volume,
     float |-> float, gapPercentage |-> gap, relativeVolume |-> relVol,
     relativeVolumeMin |-> relVolMin, hasNews |-> hasNews,
     newsCount |-> IF hasNews THEN 1 ELSE 0]

\* the records around the one under test: odd ones gap up 20 % at $100 on
\* average volume, even ones gap down 20 % at $10 with a float of 5 million
Crowd(id, symbol) ==
    IF symbol % 2 = 1
    THEN StockRow(id, symbol, 10000, 20000000, 50, 2000, 10000, Null, FALSE)
    ELSE StockRow(id, symbol, 1000, 20000000, 5, 0 - 2000, 10000, 150, FALSE)

\* the record under test, with every field on either side of a report threshold
Probes ==
    {StockRow(0, 0, price, volume, float, gap, relVol,
              IF hasNews THEN 250 ELSE Null, hasNews) :
        price \in {99, 100, 2000, 2001},
        volume \in {9999999, 10000000},
        float \in {Null, 9, 10},
        gap \in {0 - 1500, 999, 1000, 3000},
        relVol \in {49999, 50000},
        hasNews \in BOOLEAN}

\* the probes tried in the large stores
LargeProbes ==
    {probe \in Probes : probe.price = 100 /\ probe.volume = 9999999 /\ probe.float # 10}

SmallCrowds == {0, 2}
LargeCrowds == (DefaultLimit - 1)..(DefaultLimit - 1 + MaxOver)

\* a store of n crowd records with the probe upserted first or last
PopulatedStore(n, probe, first) ==
    [k \in 1..(n + 1) |->
        IF first
        THEN IF k = 1 THEN [probe EXCEPT !.id = 1] ELSE Crowd(k, k - 1)
        ELSE IF k = n + 1 THEN [probe EXCEPT !.id = n + 1] ELSE Crowd(k, k)]

NewsRow(symbol) ==
    [id |-> 1, symbol |-> symbol, title |-> "t1", summary |-> "s1", url |-> "u1"]

\* variant in which a request leaves the store's records sorted by gap
GetReport_SortingStore(id) ==
    /\ \/ queries < MaxQueries
       \/ queries = MaxQueries /\ ret.call = "report" /\ ret.id = id
    /\ queries' = queries + 1
    /\ ret' = [call |-> "report", id |-> id, result |-> Report(id, stocks, stockNews)]
    /\ stocks' = AbsGapDescending(stocks)
    /\ UNCHANGED <<stockNews, currentStockId, currentNewsId, serverVars, clientVars>>

\* a GET of report id; after MaxQueries requests the last one is made once more
GetReport(id) ==
    /\ \/ queries < MaxQueries
       \/ queries = MaxQueries /\ ret.call = "report" /\ ret.id = id
    /\ queries' = queries + 1
    /\ ret' = [call |-> "report", id |-> id, result |-> Report(id, stocks, stockNews)]
    /\ UNCHANGED <<storeVars, serverVars, clientVars>>

InitReports ==
    /\ \E n \in SmallCrowds \cup LargeCrowds, probe \in Probes, first \in BOOLEAN :
          /\ n \in LargeCrowds => probe \in LargeProbes
          /\ stocks = PopulatedStore(n, probe, first)
          /\ stockNews = IF probe.hasNews THEN MapSet(EmptyMap, 0, <<NewsRow(0)>>)
                         ELSE EmptyMap
          /\ currentStockId = n + 2
          /\ currentNewsId = IF probe.hasNews THEN 2 ELSE 1
    /\ passes = [p \in Slots |-> IdlePass]
    /\ now = <<1, 570>>
    /\ clients = {}
    /\ inbox = [c \in Clients |-> [n |-> 0, last |-> NoMsg]]
    /\ ticks = 0
    /\ runs = 0
    /\ pulls = 0
    /\ snapOf = EmptyMap
    /\ ret = NoCall
    /\ queries = 0
    /\ running = TRUE
    /\ page = NoPage
    /\ socket = NoSocket

NextReports == \E id \in ReportIds : GetReport(id)

SpecReports == InitReports /\ [][NextReports]_vars

-----------------------------------------------------------------------------
(* Claims about the server (Spec) *)

Stored(symbol) == getStock(stocks, symbol)

\* C1: once a symbol's stored float is non-null, no upsert and no step of a
\* pass sets it back to null.
C1_FloatNeverCleared ==
    [][\A symbol \in Symbols(stocks) :
          getStock(stocks, symbol).float # Null
              => getStock(stocks', symbol).float # Null]_vars

\* C2: a stored hasNews = true never becomes false, whatever the news lookup of
\* a later pass returns.
C2_HasNewsNeverDowngraded ==
    [][\A symbol \in Symbols(stocks) :
          getStock(stocks, symbol).hasNews = TRUE
              => getStock(stocks', symbol).hasNews = TRUE]_vars

\* C3: at most one fetchTopGappers pass is in flight at any time.
C3_AtMostOnePassInFlight == Cardinality(InFlight) <= 1

\* the records of a batch that the loop is done with
Decided(p) == SubSeq(passes[p].batch, 1, passes[p].i - 1)

InLoop(p) == passes[p].pc \in {"admit", "news", "minute"}

\* C4: no record with todayVolume <= 50,000 is written: a pass works on (stores
\* news for, upserts) only records above the floor, its gappers are exactly the
\* decided records with volume > 50,000 and |gap| > 3, in batch order, and every
\* stored record has volume > 50,000.
C4_VolumeFloor ==
    /\ \A p \in Slots :
          /\ passes[p].pc \in {"news", "minute"}
                => passes[p].batch[passes[p].i].v > 50000
          /\ InLoop(p) =>
                LET kept(stock) == stock.v > 50000 /\ Abs(stock.perc) > 3000
                    want == SeqFilter(Decided(p),
                                      {j \in 1..Len(Decided(p)) : kept(Decided(p)[j])})
                IN  /\ Len(passes[p].gappers) = Len(want)
                    /\ \A k \in 1..Len(want) :
                          /\ passes[p].gappers[k].symbol = want[k].ticker
                          /\ passes[p].gappers[k].volume = want[k].v
    /\ \A k \in 1..Len(stocks) : stocks[k].volume > 50000

\* witness: a record with volume exactly 50,000 has been dropped by one pass
\* while a record with volume 50,001 is in the store
C4_Witness ==
    /\ \E p \in Slots :
          /\ passes[p].pc = "admit" /\ passes[p].i = 2
          /\ passes[p].batch[1].v = 50000
          /\ passes[p].gappers = <<>>
    /\ \E k \in 1..Len(stocks) : stocks[k].volume = 50001

\* C5: a record is admitted only if |todaysChangePerc| > 3: a pass works on
\* only such records, each of its gappers carries the two-decimal gap of an
\* admitted record, and every stored gap is at least 3.00 in absolute value.
C5_GapThreshold ==
    /\ \A p \in Slots :
          /\ passes[p].pc \in {"news", "minute"}
                => Abs(passes[p].batch[passes[p].i].perc) > 3000
          /\ InLoop(p) =>
                \A k \in 1..Len(passes[p].gappers) :
                    \E j \in 1..Len(Decided(p)) :
                        /\ Abs(Decided(p)[j].perc) > 3000
                        /\ Decided(p)[j].ticker = passes[p].gappers[k].symbol
                        /\ ToFixed2(Decided(p)[j].perc) = passes[p].gappers[k].gapPercentage
          /\ InLoop(p) =>
                \A j \in 1..Len(Decided(p)) :
                    Abs(Decided(p)[j].perc) <= 3000
                        => \A k \in 1..Len(passes[p].gappers) :
                              passes[p].gappers[k].gapPercentage # ToFixed2(Decided(p)[j].perc)
    /\ \A k \in 1..Len(stocks) : Abs(stocks[k].gapPercentage) >= 300

\* witness: a record with gap exactly 3.0 has been dropped by one pass while a
\* record with gap 3.01 is in the store
C5_Witness ==
    /\ \E p \in Slots :
          /\ passes[p].pc = "admit" /\ passes[p].i = 2
          /\ passes[p].batch[1].perc = 3000 /\ passes[p].batch[1].v > 50000
          /\ passes[p].gappers = <<>>
    /\ \E k \in 1..Len(stocks) : stocks[k].gapPercentage = 301

\* the session is inactive at clock reading t: a Saturday or Sunday, or a time
\* before 09:30 or from 16:00 on
SessionInactive(t) == t[1] \in {0, 6} \/ t[2] < 570 \/ t[2] >= 960

\* C6: an interval callback that runs while the session is inactive pulls no
\* snapshot, starts no pass, writes nothing to the store and sends nothing.
C6_IdleTickDoesNothing ==
    [][(ticks' # ticks /\ SessionInactive(now'))
          => UNCHANGED <<storeVars, passes, inbox, pulls, runs>>]_vars

\* witness: a callback has run while inactive, with records in the store and a
\* client connected
C6_Witness ==
    /\ ticks > 0 /\ SessionInactive(now)
    /\ Len(stocks) > 0 /\ clients # {}

\* C10: once no pass is in flight, every stored symbol holds the gapPercentage
\* and relativeVolume of the latest pulled snapshot that admitted it.
C10_LatestSnapshotWins ==
    InFlight = {} =>
        \A symbol \in Symbols(stocks) :
            /\ Stored(symbol).gapPercentage = ToFixed2(snapOf[symbol].latest.perc)
            /\ Stored(symbol).relativeVolume = RelativeVolume(snapOf[symbol].latest)

\* C13: a pass whose snapshot pull fails leaves every stored stock record and
\* news item unchanged, whether the pull throws (the pass ends at once) or
\* answers with a status that is not OK (the pass runs on an empty allStocks).
C13_FailedPullKeepsStore ==
    [][\A p \in Slots :
          \/ passes[p].pc = "pull" /\ passes'[p].pc = "idle"
          \/ passes[p].pc \notin {"idle", "pull"} /\ passes[p].batch = <<>>
                /\ passes'[p] # passes[p]
          => UNCHANGED storeVars]_vars

\* witness: the store holds records and news, two passes were started, only
\* one pull was answered and no pass is in flight: the other pull failed
C13_Witness ==
    /\ InFlight = {}
    /\ runs = 1 /\ pulls = 1
    /\ Len(stocks) > 0 /\ DOMAIN stockNews # {}

\* the pass in slot p ends with this step by returning, not by throwing
Returns(p) == passes[p].pc \in {"admit", "float"} /\ passes'[p].pc = "idle"

C17_RefreshRunsOnePass ==
    [][/\ (runs' = runs + 1 /\ ticks' = ticks) =>
             /\ \E p \in Slots :
                   /\ passes[p].pc = "idle" /\ passes'[p].pc = "pull"
                   /\ passes'[p].origin \in {"http", "ws"}
                   /\ \A q \in Slots \ {p} : passes'[q] = passes[q]
             /\ UNCHANGED <<now, storeVars, inbox, pulls>>
       /\ (ticks' = ticks + 1 /\ runs > 0 /\ SessionInactive(now')) =>
             UNCHANGED <<storeVars, passes, inbox, pulls, runs>>]_vars

\* witness: a refresh pass is in flight, requested while the clock read
\* Saturday, and an interval callback has run in that inactive session
C17_Witness ==
    /\ ticks = 1 /\ runs = 1 /\ now[1] = Saturday
    /\ \E p \in Slots : passes[p].origin \in {"http", "ws"} /\ passes[p].pc # "idle"

\* C19: every gapper a pass has built carries a relativeVolume that is
\* todayVolume / priorVolume x 100 to two decimals when priorVolume > 0 and
\* 100.00 when priorVolume is 0; it is never null.
C19_RelativeVolumeDefined ==
    \A p \in Slots :
        InLoop(p) =>
            \A k \in 1..Len(passes[p].gappers) :
                \E j \in 1..Len(Decided(p)) :
                    LET raw == Decided(p)[j]
                        rv == passes[p].gappers[k].relativeVolume
                        whole == raw.v \div (IF raw.pv > 0 THEN raw.pv ELSE 1)
                        rest == raw.v % (IF raw.pv > 0 THEN raw.pv ELSE 1)
                        frac == rv - whole * 10000
                    IN  /\ raw.ticker = passes[p].gappers[k].symbol
                        /\ rv # Null
                        /\ IF raw.pv > 0
                           THEN 2 * Abs(frac * raw.pv - rest * 10000) <= raw.pv
                           ELSE rv = 10000

\* witness: the store holds a record computed from a prior volume of 0 and a
\* pass has built one from a positive prior volume
C19_Witness ==
    /\ \E k \in 1..Len(stocks) : stocks[k].symbol = "B" /\ stocks[k].relativeVolume = 10000
    /\ \E p \in Slots :
          /\ InLoop(p) /\ Len(passes[p].gappers) = 1
          /\ Decided(p)[1].pv > 0
          /\ passes[p].gappers[1].relativeVolume = 50001

\* C21: once a pass has gone past a record of its batch whose symbol the store
\* already holds, the stored price, volume, gapPercentage and relativeVolume
\* of that symbol are the ones of that record.
C21_StoredSymbolFollowsBatch ==
    [][\A p \in Slots :
          (InLoop(p) /\ InLoop(p)' /\ passes'[p].i = passes[p].i + 1) =>
              LET stock == passes[p].batch[passes[p].i] IN
              HasStock(stocks, stock.ticker) =>
                  /\ getStock(stocks', stock.ticker).price = stock.c
                  /\ getStock(stocks', stock.ticker).volume = stock.v
                  /\ getStock(stocks', stock.ticker).gapPercentage = ToFixed2(stock.perc)
                  /\ getStock(stocks', stock.ticker).relativeVolume = RelativeVolume(stock)]_vars

\* C26: every stored record with hasNews = true has at least one news item
\* stored for its symbol, and the all-gappers view reports a newsCount of at
\* least 1 for it.
C26_HasNewsMeansStoredNews ==
    /\ \A k \in 1..Len(stocks) :
          stocks[k].hasNews = TRUE => Len(NewsOf(stockNews, stocks[k].symbol)) >= 1
    /\ LET view == getTopGappers(stocks, stockNews, DefaultLimit) IN
       \A k \in 1..Len(view) : view[k].hasNews = TRUE => view[k].newsCount >= 1

\* witness: a pass has returned and left a record with hasNews = true and one
\* stored news item
C26_Witness ==
    /\ InFlight = {}
    /\ \E k \in 1..Len(stocks) :
          /\ stocks[k].hasNews = TRUE
          /\ Len(NewsOf(stockNews, stocks[k].symbol)) = 1

\* C27: every stored record has a volume above 50,000 and a stored
\* gapPercentage of absolute value at least 3.00.
C27_StoreHoldsAdmittedOnly ==
    \A k \in 1..Len(stocks) :
        /\ stocks[k].volume # Null /\ stocks[k].volume > 50000
        /\ stocks[k].gapPercentage # Null /\ Abs(stocks[k].gapPercentage) >= 300

\* witness: the float phase has written again a record whose gap of -3.004 %
\* is stored as -3.00
C27_Witness ==
    \E k \in 1..Len(stocks) :
        /\ stocks[k].gapPercentage = 0 - 300
        /\ stocks[k].float = 5
        /\ stocks[k].volume = 12000000

-----------------------------------------------------------------------------
(* Claims about the interval callback over several ticks (SpecLoop) *)

\* C12: no failing pass stops the server, and every interval callback that
\* runs while the session is active starts a new pass, whatever the passes
\* before it did.
C12_SchedulerSurvivesFailure ==
    [][/\ running'
       /\ (ticks' = ticks + 1 /\ ~SessionInactive(now'))
             => \E p \in Slots : /\ passes[p].pc = "idle"
                                 /\ passes'[p].pc = "pull"
                                 /\ passes'[p].origin = "tick"]_vars

\* witness: the initial fetch still waits for its snapshot, the pass of the
\* first tick has thrown (no pull was ever answered) and the second tick has
\* started its own pass
C12_Witness ==
    /\ running
    /\ ticks = 2 /\ runs = 2 /\ pulls = 0
    /\ passes[1].origin = "init" /\ passes[1].pc = "pull"
    /\ passes[2].origin = "tick" /\ passes[2].pc = "pull"

\* C22: the interval callback sends no stocks_update while the session is
\* inactive, not even for a pass it started while the session was active: no
\* client receives a timestamped stocks_update after a tick has read an
\* inactive clock and before a later tick reads an active one.
C22_NoBroadcastWhileInactive ==
    [][\A c \in Clients :
          (inbox'[c].n = inbox[c].n + 1 /\ inbox'[c].last.timestamp = TRUE)
              => ~SessionInactive(now)]_vars

-----------------------------------------------------------------------------
(* Claims about one pass over a snapshot with malformed records (SpecFeed) *)

\* a record with every required field that passes both admission filters
Admissible(stock) ==
    /\ stock.c # Null /\ stock.v # Null /\ stock.perc # Null
    /\ stock.v > 50000
    /\ Abs(stock.perc) > 3000

WellFormed(stock) == stock.c # Null /\ stock.v # Null /\ stock.perc # Null

\* the pass in slot p ends with this step, its snapshot pulled
Ends(p) == passes[p].pc \notin {"idle", "pull"} /\ passes'[p].pc = "idle"

\* C11: a malformed record never aborts the batch: when a pass over a snapshot
\* ends, every admissible record of the snapshot is in the store.
C11_MalformedRecordDroppedAlone ==
    [][\A p \in Slots :
          Ends(p) =>
              \A j \in 1..Len(passes[p].batch) :
                  Admissible(passes[p].batch[j])
                      => \E k \in 1..Len(stocks') :
                            stocks'[k].symbol = passes[p].batch[j].ticker]_vars

\* C23: when a pass returns, every symbol whose news lookup succeeded in it
\* with n >= 1 articles shows hasNews = true and newsCount = n in the
\* all-gappers view.
C23_NewsCountIsLookupCount ==
    [][\A p \in Slots :
          Returns(p) =>
              LET view == getTopGappers(stocks', stockNews', DefaultLimit) IN
              \A g \in 1..Len(passes[p].gappers) :
                  (passes[p].gappers[g].hasNews /\ passes[p].gappers[g].newsCount >= 1) =>
                      \E k \in 1..Len(view) :
                          /\ view[k].symbol = passes[p].gappers[g].symbol
                          /\ view[k].hasNews = TRUE
                          /\ view[k].newsCount = passes[p].gappers[g].newsCount]_vars

-----------------------------------------------------------------------------
(* Claims about the report endpoints (SpecReports) *)

InResult(symbol) == \E j \in 1..Len(ret.result) : ret.result[j].symbol = symbol

\* the number of the five flagship criteria a record meets: relative volume at
\* least 500 %, gap at least 10 %, news, price within $1.00 .. $20.00, and a
\* float under 10,000,000 shares, the volume standing in for an unknown float
FlagshipScore(stock) ==
      (IF stock.relativeVolume >= 50000 THEN 1 ELSE 0)
    + (IF stock.gapPercentage >= 1000 THEN 1 ELSE 0)
    + (IF stock.hasNews THEN 1 ELSE 0)
    + (IF stock.price >= 100 /\ stock.price <= 2000 THEN 1 ELSE 0)
    + (IF stock.float # Null
       THEN (IF stock.float * 1000000 < 10000000 THEN 1 ELSE 0)
       ELSE (IF stock.volume < 10000000 THEN 1 ELSE 0))

\* C7: of the records handed to the flagship filter, the report holds exactly
\* those that meet at least 3 of the 5 criteria.
C7_MoysThreeOfFive ==
    (ret.call = "report" /\ ret.id = "moys") =>
        LET top == getTopGappers(stocks, stockNews, DefaultLimit) IN
        \A k \in 1..Len(top) :
            InResult(top[k].symbol) <=> FlagshipScore(top[k]) >= 3

\* witness: the flagship report holds a record that meets exactly 3 criteria and
\* leaves out a candidate that meets exactly 2
C7_Witness ==
    /\ ret.call = "report" /\ ret.id = "moys"
    /\ \E j \in 1..Len(ret.result) : FlagshipScore(ret.result[j]) = 3
    /\ \E k \in 1..Len(stocks) :
          FlagshipScore(stocks[k]) = 2 /\ ~InResult(stocks[k].symbol)

\* the predicate of each category report
Predicate(id, stock) ==
    CASE id = "positive" -> PositiveGap(stock)
      [] id = "negative" -> NegativeGap(stock)
      [] id = "moys" -> MoysFilter(stock)
      [] id = "small-cap-momentum" -> SmallCapFilter(stock)
      [] id = "ross-gappers" -> RossFilter(stock)
      [] id = "reversal" -> ReversalFilter(stock)
      [] id = "after-hours-gainers" -> AfterHoursFilter(stock)
      [] id = "continuation" -> ContinuationFilter(stock)
      [] id = "recent-ipo" -> RecentIpoFilter(stock)
      [] id = "top-gainers" -> GainerFilter(stock)
      [] id = "top-losers" -> LoserFilter(stock)
      [] id = "relative-volume" -> TRUE
      [] id = "volume-5min" -> Volume5MinFilter(stock)
      [] id = "large-cap-momentum" -> LargeCapMomentumFilter(stock)
      [] id = "large-cap-gappers" -> LargeCapGappersFilter(stock)
      [] id = "earnings-gap" -> EarningsGapFilter(stock)
      [] id = "penny-gappers" -> PennyFilter(stock)
      [] id = "halt" -> HaltFilter(stock)

\* every report but the all-gappers view and rsi-trend, whose cut to 15 rows is
\* part of its definition
CategoryReports == ReportIds \ {"all", "rsi-trend"}

\* C8: a category report holds every stored record that satisfies its
\* predicate, however many records the store holds.
C8_CategoryReportsNotTruncated ==
    (ret.call = "report" /\ ret.id \in CategoryReports) =>
        \A k \in 1..Len(stocks) :
            Predicate(ret.id, stocks[k]) => InResult(stocks[k].symbol)

Inserted(symbol) == CHOOSE k \in 1..Len(stocks) : stocks[k].symbol = symbol

\* C15: the all-gappers view is the first 50 stored records in order of
\* non-increasing |gapPercentage|, records of equal |gap| in insertion order;
\* no record left out ranks before one that is included.
C15_AllGappersRanked ==
    (ret.call = "report" /\ ret.id = "all") =>
        LET r == ret.result
            in(symbol) == \E j \in 1..Len(r) : r[j].symbol = symbol
            before(a, b) ==
                \/ Abs(a.gapPercentage) > Abs(b.gapPercentage)
                \/ /\ Abs(a.gapPercentage) = Abs(b.gapPercentage)
                   /\ Inserted(a.symbol) < Inserted(b.symbol)
        IN  /\ Len(r) = IF Len(stocks) < 50 THEN Len(stocks) ELSE 50
            /\ \A j \in 1..Len(r) :
                  \E k \in 1..Len(stocks) :
                      /\ stocks[k].symbol = r[j].symbol
                      /\ stocks[k].gapPercentage = r[j].gapPercentage
            /\ \A i, j \in 1..Len(r) : i < j => before(r[i], r[j])
            /\ \A k \in 1..Len(stocks) :
                  ~in(stocks[k].symbol) => \A j \in 1..Len(r) : before(r[j], stocks[k])

\* witness: the view of a store of 51 records, 50 of them with the same |gap|,
\* leaves one record out
C15_Witness ==
    /\ ret.call = "report" /\ ret.id = "all"
    /\ Len(stocks) = 51 /\ Len(ret.result) = 50
    /\ \E i, j \in 1..Len(stocks) :
          i # j /\ Abs(stocks[i].gapPercentage) = Abs(stocks[j].gapPercentage)

-----------------------------------------------------------------------------
(* Claims about the storage interface (SpecStore) *)

\* C9: addStockNews of an item whose title and url equal those of an item
\* already stored for the symbol stores nothing and returns that stored item;
\* any other item adds exactly one.
C9_DuplicateNewsReturnsExisting ==
    [][ret'.call = "addStockNews" =>
          LET d == ret'.arg
              before == NewsOf(stockNews, d.symbol)
              after == NewsOf(stockNews', d.symbol)
              same == {k \in 1..Len(before) :
                          before[k].title = d.title /\ before[k].url = d.url}
          IN  IF same # {}
              THEN /\ stockNews' = stockNews
                   /\ currentNewsId' = currentNewsId
                   /\ \E k \in same : ret'.result = before[k]
              ELSE /\ Len(after) = Len(before) + 1
                   /\ ret'.result = after[Len(after)]
                   /\ ret'.result.title = d.title /\ ret'.result.url = d.url]_vars

\* witness: the same title and url were submitted twice with different
\* summaries; one item is stored and the call returned it, not the submission
C9_Witness ==
    /\ ret.call = "addStockNews"
    /\ ret.result.summary # ret.arg.summary
    /\ Len(NewsOf(stockNews, ret.arg.symbol)) = 1

\* C28: every stored symbol keeps the id of its first upsert through every
\* later storage call, and no two symbols share an id.
C28_IdsStableAndDistinct ==
    [][/\ \A symbol \in Symbols(stocks) :
             /\ HasStock(stocks', symbol)
             /\ getStock(stocks', symbol).id = getStock(stocks, symbol).id
       /\ \A j, k \in 1..Len(stocks') :
             stocks'[j].id = stocks'[k].id => j = k]_vars

\* witness: A and B are stored with ids 1 and 2, and an upsert of the stored
\* symbol A has returned its record with id 1
C28_Witness ==
    /\ ret.call = "upsertStock"
    /\ ret.arg.symbol = "A" /\ ret.result.id = 1
    /\ HasStock(stocks, "B") /\ getStock(stocks, "B").id = 2
    /\ currentStockId = 3
    /\ getStock(stocks, "A").price = 1000
    /\ getStock(stocks, "B").price = 990

-----------------------------------------------------------------------------
(* GET /api/market/status over the clock readings of a week (SpecClock) *)

\* getDay(), getHours() and getMinutes() of the exchange-local clock
ClockDays == 0..6
ClockHours == {0, 9, 10, 12, 15, 16, 23}
ClockMinutes == {0, 29, 30, 31, 59}
Instants == ClockDays \X ClockHours \X ClockMinutes

InitClock ==
    /\ stocks = <<>>
    /\ stockNews = EmptyMap
    /\ currentStockId = 1
    /\ currentNewsId = 1
    /\ passes = [p \in Slots |-> IdlePass]
    /\ now = <<1, 570>>
    /\ clients = {}
    /\ inbox = [c \in Clients |-> [n |-> 0, last |-> NoMsg]]
    /\ ticks = 0
    /\ runs = 0
    /\ pulls = 0
    /\ snapOf = EmptyMap
    /\ \E i \in Instants : ret = [call |-> "clock", arg |-> i]
    /\ queries = 0
    /\ running = TRUE
    /\ page = NoPage
    /\ socket = NoSocket

\* res.json({ isOpen: isMarketOpen(), ... }) at the instant the clock shows
MarketStatus ==
    /\ ret.call = "clock"
    /\ ret' = [call |-> "market/status", arg |-> ret.arg,
               isOpen |-> isMarketOpen(<<ret.arg[1], currentMinutes(ret.arg[2], ret.arg[3])>>)]
    /\ UNCHANGED <<storeVars, serverVars, queries, clientVars>>

NextClock == MarketStatus

SpecClock == InitClock /\ [][NextClock]_vars

\* C18: the session test answers true exactly for Monday to Friday from 09:30
\* up to but not including 16:00, and false at every time on Saturday and Sunday.
C18_SessionActiveExactly ==
    ret.call = "market/status" =>
        LET day == ret.arg[1]
            hours == ret.arg[2]
            minutes == ret.arg[3]
            weekday == day \in 1..5
            opened == hours > 9 \/ (hours = 9 /\ minutes >= 30)
            closed == hours >= 16
        IN  ret.isOpen = (weekday /\ opened /\ ~closed)

\* witness: the status was asked on a Monday at 09:30 and came back open
C18_Witness ==
    /\ ret.call = "market/status"
    /\ ret.arg = <<1, 9, 30>>
    /\ ret.isOpen

-----------------------------------------------------------------------------
(* calculateRSI over short series of closes (SpecIndicators) *)

\* calculateRSI(closes, 14)
RsiPeriod == 14

\* bars beyond the period + 1 the function needs
MaxExtraBars == 2

\* a value as an exact fraction; NaN is 0 / 0
Frac(num, den) == [num |-> num, den |-> den]

\* closes rising by `up` a bar, shifted by `d` after bar k
Series(n, up, k, d) ==
    SubSeq([i \in 1..n |-> 1000 + up * (i - 1) + (IF i > k THEN d ELSE 0)], 1, n)

CloseSeries ==
    { Series(n, up, k, d) :
        n \in RsiPeriod..(RsiPeriod + 1 + MaxExtraBars),
        up \in 0..2,
        k \in {1, 7, RsiPeriod, RsiPeriod + 1, RsiPeriod + 2},
        d \in {0 - 3, 0 - 1, 0, 2} }

\* prices[i] - prices[i - 1] for the zero-based index i
Change(prices, i) == prices[i + 1] - prices[i]

\* gains and losses summed over bars 1..period, then Wilder's smoothing over
\* the remaining bars; the averages are kept as numerators over one denominator
Averages(prices, period) ==
    LET gains[i \in 0..period] ==
            IF i = 0 THEN 0
            ELSE gains[i - 1] + (IF Change(prices, i) > 0 THEN Change(prices, i) ELSE 0)
        losses[i \in 0..period] ==
            IF i = 0 THEN 0
            ELSE losses[i - 1] + (IF Change(prices, i) > 0 THEN 0 ELSE Abs(Change(prices, i)))
        avg[i \in period..(Len(prices) - 1)] ==
            IF i = period
            THEN [avgGain |-> gains[period], avgLoss |-> losses[period], over |-> period]
            ELSE LET change == Change(prices, i)
                     gain == IF change > 0 THEN change ELSE 0
                     loss == IF change < 0 THEN Abs(change) ELSE 0
                     was == avg[i - 1]
                 IN  [avgGain |-> was.avgGain * (period - 1) + gain * was.over,
                      avgLoss |-> was.avgLoss * (period - 1) + loss * was.over,
                      over |-> was.over * period]
    IN  avg[Len(prices) - 1]

\* variant without the avgLoss === 0 branch: rs = avgGain / 0 is Infinity, or
\* NaN when avgGain is 0 too
calculateRSI_Dividing(prices, period) ==
    IF Len(prices) < period + 1 THEN Frac(50, 1)
    ELSE LET a == Averages(prices, period)
         IN  IF a.avgLoss = 0
             THEN (IF a.avgGain = 0 THEN Frac(0, 0) ELSE Frac(100 * a.avgGain, a.avgGain))
             ELSE Frac(100 * a.avgGain, a.avgGain + a.avgLoss)

\* 100 - 100 / (1 + avgGain / avgLoss) is 100 * avgGain / (avgGain + avgLoss)
calculateRSI(prices, period) ==
    IF Len(prices) < period + 1 THEN Frac(50, 1)
    ELSE LET a == Averages(prices, period)
         IN  IF a.avgLoss = 0 THEN Frac(100, 1)
             ELSE Frac(100 * a.avgGain, a.avgGain + a.avgLoss)

InitIndicators ==
    /\ stocks = <<>>
    /\ stockNews = EmptyMap
    /\ currentStockId = 1
    /\ currentNewsId = 1
    /\ passes = [p \in Slots |-> IdlePass]
    /\ now = <<1, 570>>
    /\ clients = {}
    /\ inbox = [c \in Clients |-> [n |-> 0, last |-> NoMsg]]
    /\ ticks = 0
    /\ runs = 0
    /\ pulls = 0
    /\ snapOf = EmptyMap
    /\ \E closes \in CloseSeries : ret = [call |-> "closes", arg |-> closes]
    /\ queries = 0
    /\ running = TRUE
    /\ page = NoPage
    /\ socket = NoSocket

\* const rsi = calculateRSI(closes, 14)
Rsi ==
    /\ ret.call = "closes"
    /\ ret' = [call |-> "calculateRSI", arg |-> ret.arg,
               result |-> calculateRSI(ret.arg, RsiPeriod)]
    /\ UNCHANGED <<storeVars, serverVars, queries, clientVars>>

NextIndicators == Rsi

SpecIndicators == InitIndicators /\ [][NextIndicators]_vars

\* no bar of the series closes below the bar before it
NeverFalls(prices) == \A i \in 2..Len(prices) : prices[i] >= prices[i - 1]

\* C20: the RSI(14) of a series of at least 15 bars in which no bar closes below
\* the previous one is exactly 100, a number and not the outcome of a division
\* by zero.
C20_RisingSeriesRsi100 ==
    (/\ ret.call = "calculateRSI"
     /\ Len(ret.arg) >= RsiPeriod + 1
     /\ NeverFalls(ret.arg))
        => ret.result.den # 0 /\ ret.result.num = 100 * ret.result.den

\* witness: a series beyond 15 bars with rises and one flat step came back 100
C20_Witness ==
    /\ ret.call = "calculateRSI"
    /\ Len(ret.arg) > RsiPeriod + 1
    /\ NeverFalls(ret.arg)
    /\ \E i \in 2..Len(ret.arg) : ret.arg[i] = ret.arg[i - 1]
    /\ \E i \in 2..Len(ret.arg) : ret.arg[i] > ret.arg[i - 1]
    /\ ret.result = Frac(100, 1)

-----------------------------------------------------------------------------
(* calculateEMA, the MACD line and calculateSMA over the daily closes of    *)
(* calculateTechnicalIndicators (SpecAverages)                              *)

\* historicalData.results.length < 20: too few bars for the indicators
MinBars == 20

\* calculateEMA(closes, 12), calculateEMA(closes, 26)
FastPeriod == 12
SlowPeriod == 26

\* calculateSMA(closes, 20), calculateSMA(closes, 50)
SmaShort == 20
SmaLong == 50

\* bars beyond the slow period
MaxBarsOver == 2

\* NaN, which is also what arithmetic makes of undefined
NaN == 0 - 1000000000

\* averages are kept in thousandths of the price unit
Fix(price) == price * 1000

Sub(a, b) == IF a = NaN \/ b = NaN THEN NaN ELSE a - b

\* s[i] of a JavaScript array for the zero-based index i, in arithmetic
At(s, i) == IF i >= 0 /\ i < Len(s) THEN s[i + 1] ELSE NaN

\* x || 0
OrZero(x) == IF x = NaN THEN 0 ELSE x

BarSeries ==
    { Series(n, up, k, d) :
        n \in {MinBars} \cup (SlowPeriod..(SlowPeriod + MaxBarsOver)),
        up \in 0..2,
        k \in {1, FastPeriod + 1, SlowPeriod + 1},
        d \in {0 - 3, 0, 2} }

\* calculateEMA: the mean of the first `period` prices, then
\* price * k + previous * (1 - k) with k = 2 / (period + 1); fewer prices than
\* the period sum up to NaN
calculateEMA(prices, period) ==
    IF Len(prices) < period THEN <<NaN>>
    ELSE LET sum[i \in 0..period] == IF i = 0 THEN 0 ELSE sum[i - 1] + prices[i]
             ema[i \in period..Len(prices)] ==
                 IF i = period THEN RoundDiv(Fix(sum[period]), period)
                 ELSE RoundDiv(2 * Fix(prices[i]) + (period - 1) * ema[i - 1], period + 1)
         IN  SubSeq([j \in 1..(Len(prices) - period + 1) |-> ema[period + j - 1]],
                    1, Len(prices) - period + 1)

\* for (i = startIndex; i < ema12.length; i++) macdLine.push(ema12[i] - ema26[i - startIndex])
MacdLine(ema12, ema26) ==
    LET startIndex == IF Len(ema26) - Len(ema12) > 0 THEN Len(ema26) - Len(ema12) ELSE 0
        count == IF Len(ema12) - startIndex > 0 THEN Len(ema12) - startIndex ELSE 0
    IN  SubSeq([j \in 1..count |->
                    Sub(At(ema12, startIndex + j - 1), At(ema26, j - 1))], 1, count)

\* currentMacd = macdLine[macdLine.length - 1] || 0
CurrentMacd(macdLine) == OrZero(At(macdLine, Len(macdLine) - 1))

\* prices.slice(-period).reduce(sum) / period, or the last price || 0 when
\* there are fewer prices than the period
calculateSMA(prices, period) ==
    IF Len(prices) < period
    THEN Frac(IF Len(prices) = 0 THEN 0 ELSE prices[Len(prices)], 1)
    ELSE LET recent == SubSeq(prices, Len(prices) - period + 1, Len(prices))
             sum[i \in 0..period] == IF i = 0 THEN 0 ELSE sum[i - 1] + recent[i]
         IN  Frac(sum[period], period)

InitAverages ==
    /\ stocks = <<>>
    /\ stockNews = EmptyMap
    /\ currentStockId = 1
    /\ currentNewsId = 1
    /\ passes = [p \in Slots |-> IdlePass]
    /\ now = <<1, 570>>
    /\ clients = {}
    /\ inbox = [c \in Clients |-> [n |-> 0, last |-> NoMsg]]
    /\ ticks = 0
    /\ runs = 0
    /\ pulls = 0
    /\ snapOf = EmptyMap
    /\ \E closes \in BarSeries : ret = [call |-> "bars", arg |-> closes]
    /\ queries = 0
    /\ running = TRUE
    /\ page = NoPage
    /\ socket = NoSocket

\* ema12, ema26, macdLine and currentMacd of calculateTechnicalIndicators
Macd ==
    /\ ret.call = "bars"
    /\ LET macdLine == MacdLine(calculateEMA(ret.arg, FastPeriod),
                                calculateEMA(ret.arg, SlowPeriod))
       IN  ret' = [call |-> "macd", arg |-> ret.arg, macdLine |-> macdLine,
                   result |-> CurrentMacd(macdLine)]
    /\ UNCHANGED <<storeVars, serverVars, queries, clientVars>>

\* sma20 and sma50 of calculateTechnicalIndicators
Sma(period) ==
    /\ ret.call = "bars"
    /\ ret' = [call |-> "calculateSMA", arg |-> ret.arg, period |-> period,
               result |-> calculateSMA(ret.arg, period)]
    /\ UNCHANGED <<storeVars, serverVars, queries, clientVars>>

NextAverages ==
    \/ Macd
    \/ \E period \in {SmaShort, SmaLong} : Sma(period)

SpecAverages == InitAverages /\ [][NextAverages]_vars

\* C24: with at least 26 closes the MACD line has one element per EMA(26)
\* value, each the EMA(12) value minus the EMA(26) value of the same bar, and
\* the reported MACD is that difference for the last bar.
C24_MacdAlignedOnSlowEma ==
    (ret.call = "macd" /\ Len(ret.arg) >= SlowPeriod) =>
        LET ema12 == calculateEMA(ret.arg, FastPeriod)
            ema26 == calculateEMA(ret.arg, SlowPeriod)
            ahead == SlowPeriod - FastPeriod
        IN  /\ Len(ret.macdLine) = Len(ema26)
            /\ \A j \in 1..Len(ema26) : ret.macdLine[j] = ema12[j + ahead] - ema26[j]
            /\ ret.result = ema12[Len(ema12)] - ema26[Len(ema26)]

\* the sum of the last n values of a series
SumOfLast(prices, n) ==
    LET sum[i \in 0..n] == IF i = 0 THEN 0 ELSE sum[i - 1] + prices[Len(prices) - n + i]
    IN  sum[n]

\* C25: calculateSMA answers the mean of the last `period` closes, and the
\* mean of all the closes when there are fewer than `period`.
C25_SmaIsMeanOfAvailable ==
    ret.call = "calculateSMA" =>
        LET n == IF Len(ret.arg) < ret.period THEN Len(ret.arg) ELSE ret.period
        IN  /\ ret.result.den # 0
            /\ ret.result.num * n = SumOfLast(ret.arg, n) * ret.result.den

-----------------------------------------------------------------------------
(* useWebSocket(path) in one browser: its effect, the sockets it constructs *)
(* and its reconnect timers (SpecSocket)                                    *)

\* WebSocket objects constructed, and runs of the effect (the mount and the
\* path changes after it)
MaxSockets == 3
MaxEffects == 2

Effects == 1..MaxEffects

\* event.data of the messages the server sends
MessageTypes == {"subscribed", "stocks_update"}

\* connect() in the closure of effect e: new WebSocket(wsUrl), wsRef.current = ws
connect(sk, e) ==
    [sk EXCEPT !.sockets = Append(@, [readyState |-> "CONNECTING", effect |-> e]),
               !.wsRef = Len(sk.sockets) + 1]

\* ws.close() on socket k: an open or connecting socket starts closing
close(sockets, k) ==
    IF k # 0 /\ sockets[k].readyState \in {"CONNECTING", "OPEN"}
    THEN [sockets EXCEPT ![k].readyState = "CLOSING"]
    ELSE sockets

\* the effect's cleanup: if (wsRef.current) wsRef.current.close()
cleanup(sk) ==
    [sk EXCEPT !.sockets = close(sk.sockets, sk.wsRef),
               !.cleaned = @ \cup {sk.effect}]

\* the hook has mounted and its first effect has called connect()
InitSocket ==
    /\ stocks = <<>>
    /\ stockNews = EmptyMap
    /\ currentStockId = 1
    /\ currentNewsId = 1
    /\ passes = [p \in Slots |-> IdlePass]
    /\ now = <<1, 570>>
    /\ clients = {}
    /\ inbox = [c \in Clients |-> [n |-> 0, last |-> NoMsg]]
    /\ ticks = 0
    /\ runs = 0
    /\ pulls = 0
    /\ snapOf = EmptyMap
    /\ ret = NoCall
    /\ queries = 0
    /\ running = TRUE
    /\ page = NoPage
    /\ socket = connect([mounted |-> TRUE, effect |-> 1, cleaned |-> {},
                         sockets |-> <<>>, wsRef |-> 0,
                         timers |-> [e \in Effects |-> 0],
                         isConnected |-> FALSE, lastMessage |-> "null"], 1)

\* ws.onopen
SocketOpen(k) ==
    /\ k <= Len(socket.sockets)
    /\ socket.sockets[k].readyState = "CONNECTING"
    /\ socket' = [socket EXCEPT !.sockets[k].readyState = "OPEN", !.isConnected = TRUE]
    /\ UNCHANGED <<storeVars, serverVars, ret, queries, page>>

\* ws.onmessage
SocketMessage(k, type) ==
    /\ k <= Len(socket.sockets)
    /\ socket.sockets[k].readyState = "OPEN"
    /\ socket' = [socket EXCEPT !.lastMessage = type]
    /\ UNCHANGED <<storeVars, serverVars, ret, queries, page>>

\* the server or the network ends the connection
SocketLost(k) ==
    /\ k <= Len(socket.sockets)
    /\ socket.sockets[k].readyState \in {"CONNECTING", "OPEN"}
    /\ socket' = [socket EXCEPT !.sockets[k].readyState = "CLOSING"]
    /\ UNCHANGED <<storeVars, serverVars, ret, queries, page>>

\* ws.onclose: setIsConnected(false); setTimeout(connect, 3000)
SocketClose(k) ==
    /\ k <= Len(socket.sockets)
    /\ socket.sockets[k].readyState = "CLOSING"
    /\ socket' = [socket EXCEPT !.sockets[k].readyState = "CLOSED",
                                !.isConnected = FALSE,
                                !.timers[socket.sockets[k].effect] = @ + 1]
    /\ UNCHANGED <<storeVars, serverVars, ret, queries, page>>

\* a reconnect timer set by a socket of effect e fires: connect()
Reconnect(e) ==
    /\ socket.timers[e] > 0
    /\ socket' = connect([socket EXCEPT !.timers[e] = @ - 1], e)
    /\ UNCHANGED <<storeVars, serverVars, ret, queries, page>>

\* the component unmounts: the cleanup of the current effect runs
Unmount ==
    /\ socket.mounted
    /\ socket' = [cleanup(socket) EXCEPT !.mounted = FALSE]
    /\ UNCHANGED <<storeVars, serverVars, ret, queries, page>>

\* path changes: the cleanup of the current effect runs, then the effect runs
\* again and calls connect()
PathChange ==
    /\ socket.mounted
    /\ socket' = connect([cleanup(socket) EXCEPT !.effect = @ + 1], socket.effect + 1)
    /\ UNCHANGED <<storeVars, serverVars, ret, queries, page>>

NextSocket ==
    \/ \E k \in 1..MaxSockets : SocketOpen(k)
    \/ \E k \in 1..MaxSockets, type \in MessageTypes : SocketMessage(k, type)
    \/ \E k \in 1..MaxSockets : SocketLost(k)
    \/ \E k \in 1..MaxSockets : SocketClose(k)
    \/ \E e \in Effects : Len(socket.sockets) < MaxSockets /\ Reconnect(e)
    \/ Unmount
    \/ socket.effect < MaxEffects /\ Len(socket.sockets) < MaxSockets /\ PathChange

SpecSocket == InitSocket /\ [][NextSocket]_vars

\* C30: once the cleanup of an effect has run, every socket that effect
\* constructed is closing or closed, and no socket is constructed for that
\* effect any more.
C30_NoConnectionAfterCleanup ==
    [][\A e \in socket'.cleaned :
          /\ \A k \in 1..Len(socket'.sockets) :
                socket'.sockets[k].effect = e
                    => socket'.sockets[k].readyState \in {"CLOSING", "CLOSED"}
          /\ e \in socket.cleaned =>
                \A k \in (Len(socket.sockets) + 1)..Len(socket'.sockets) :
                    socket'.sockets[k].effect # e]_vars

-----------------------------------------------------------------------------
(* The StockScanner page of one browser against a server whose store does   *)
(* not change (SpecPage)                                                    *)

\* fetch() calls and report selections explored
MaxFetches == 3
MaxSelects == 2

\* reports of the sidebar, and the server report each one's endpoint names
SidebarReports == {"moys-top-gappers", "top-gainers", "top-losers"}

EndpointOf(reportId) ==
    CASE reportId = "moys-top-gappers" -> "moys"
      [] reportId = "top-gainers" -> "top-gainers"
      [] reportId = "top-losers" -> "top-losers"

\* fetch(endpoint) issued by the page; `by` names the caller
Fetched(pg, endpoint, by) ==
    [pg EXCEPT !.fetches = @ + 1,
               !.pending = @ \cup {[n |-> pg.fetches + 1, endpoint |-> endpoint, by |-> by]}]

\* the "load initial data" effect, run when isConnected or currentEndpoint changed
LoadInitial(pg) ==
    IF pg.isConnected /\ Len(pg.stocks) = 0
    THEN Fetched(pg, pg.currentEndpoint, "initial")
    ELSE pg

\* the page has mounted on the default report; the server holds one record
\* gapping up and one gapping down
InitPage ==
    /\ stocks = <<Crowd(1, 1), Crowd(2, 2)>>
    /\ stockNews = EmptyMap
    /\ currentStockId = 3
    /\ currentNewsId = 1
    /\ passes = [p \in Slots |-> IdlePass]
    /\ now = <<1, 570>>
    /\ clients = {}
    /\ inbox = [c \in Clients |-> [n |-> 0, last |-> NoMsg]]
    /\ ticks = 0
    /\ runs = 0
    /\ pulls = 0
    /\ snapOf = EmptyMap
    /\ ret = NoCall
    /\ queries = 0
    /\ running = TRUE
    /\ page = [mounted |-> TRUE, currentReport |-> "moys-top-gappers",
               currentEndpoint |-> "moys", stocks |-> <<>>, isLoading |-> TRUE,
               isConnected |-> FALSE, pending |-> {}, fetches |-> 0, selects |-> 0,
               selectFetch |-> 0, received |-> FALSE]
    /\ socket = NoSocket

\* useWebSocket reports the connection: the "load initial data" effect runs
PageConnected ==
    /\ ~page.isConnected
    /\ page' = LoadInitial([page EXCEPT !.isConnected = TRUE])
    /\ UNCHANGED <<storeVars, serverVars, ret, queries, socket>>

\* lastMessage becomes a stocks_update: setStocks(lastMessage.data || [])
PushArrives ==
    /\ page.isConnected
    /\ page' = [page EXCEPT !.stocks = getTopGappers(stocks, stockNews, DefaultLimit),
                            !.isLoading = FALSE]
    /\ UNCHANGED <<storeVars, serverVars, ret, queries, socket>>

\* handleReportSelect(reportId, endpoint); the change of currentEndpoint runs
\* the "load initial data" effect again
handleReportSelect(reportId) ==
    /\ LET selected == [page EXCEPT !.currentReport = reportId,
                                    !.currentEndpoint = EndpointOf(reportId),
                                    !.isLoading = TRUE,
                                    !.selects = @ + 1,
                                    !.selectFetch = page.fetches + 1,
                                    !.received = FALSE]
           fetched == Fetched(selected, EndpointOf(reportId), "select")
       IN  page' = IF EndpointOf(reportId) # page.currentEndpoint
                   THEN LoadInitial(fetched)
                   ELSE fetched
    /\ UNCHANGED <<storeVars, serverVars, ret, queries, socket>>

\* the auto-refresh interval fires: fetch(currentEndpoint)
AutoRefreshTick ==
    /\ page' = Fetched(page, page.currentEndpoint, "auto")
    /\ UNCHANGED <<storeVars, serverVars, ret, queries, socket>>

\* handleRefresh: setIsLoading(true); fetch(currentEndpoint)
handleRefresh ==
    /\ page' = Fetched([page EXCEPT !.isLoading = TRUE], page.currentEndpoint, "refresh")
    /\ UNCHANGED <<storeVars, serverVars, ret, queries, socket>>

\* the response to fetch number n arrives: setStocks(data)
FetchAnswered(n) ==
    /\ \E f \in page.pending :
          /\ f.n = n
          /\ page' = [page EXCEPT !.pending = @ \ {f},
                                  !.stocks = Report(f.endpoint, stocks, stockNews),
                                  !.isLoading = IF f.by = "auto" THEN @ ELSE FALSE,
                                  !.received = @ \/ f.n = page.selectFetch]
    /\ UNCHANGED <<storeVars, serverVars, ret, queries, socket>>

\* fetch number n fails: the catch logs and clears isLoading
FetchFailed(n) ==
    /\ \E f \in page.pending :
          /\ f.n = n
          /\ page' = [page EXCEPT !.pending = @ \ {f},
                                  !.isLoading = IF f.by = "auto" THEN @ ELSE FALSE]
    /\ UNCHANGED <<storeVars, serverVars, ret, queries, socket>>

NextPage ==
    \/ page.fetches < MaxFetches /\ PageConnected
    \/ PushArrives
    \/ \E reportId \in SidebarReports :
            page.selects < MaxSelects /\ page.fetches + 1 < MaxFetches
                /\ handleReportSelect(reportId)
    \/ page.fetches < MaxFetches /\ AutoRefreshTick
    \/ page.fetches < MaxFetches /\ handleRefresh
    \/ \E n \in 1..MaxFetches : FetchAnswered(n)
    \/ \E n \in 1..MaxFetches : FetchFailed(n)

SpecPage == InitPage /\ [][NextPage]_vars

\* C29: once a report has been selected and the response to that selection
\* has been received, the displayed list is the answer of the selected
\* report's endpoint.
C29_DisplayedListIsSelectedReport ==
    (page.selects > 0 /\ page.received)
        => page.stocks = Report(page.currentEndpoint, stocks, stockNews)

====
